---- MODULE Spec2Model ----
(***************************************************************************)
(* FlacEncoder (src/lib.rs): the adapter that drives a libFLAC stream      *)
(* encoder through new / init / encode_i16 / encode_i32 / reset / drop.    *)
(*                                                                         *)
(* The adapter's own code is translated statement by statement.  The       *)
(* engine behind the ffi:: calls is a black box to the adapter; it is      *)
(* modelled by its documented contract (libFLAC 1.4 stream_encoder):       *)
(*   - a new encoder is UNINITIALIZED and carries the engine defaults;     *)
(*   - setters act only while UNINITIALIZED;                               *)
(*   - init_stream validates the settings, binds the callback context,     *)
(*     writes the stream header through the write callback, state OK;      *)
(*   - process_interleaved reads frames * channels samples in order,       *)
(*     rejects a sample outside the configured bit depth, and pushes       *)
(*     zero or more chunks of opaque bytes through the write callback;     *)
(*   - finish flushes buffered samples of an OK stream through the         *)
(*     callback and returns the encoder to UNINITIALIZED with defaults;    *)
(*   - delete finishes without flushing and frees the encoder.             *)
(* What the engine writes is opaque: it is a nondeterministic choice.      *)
(***************************************************************************)
EXTENDS Integers, Sequences, FiniteSets, TLC

\* ---------------------------------------------------------------- bounds
MaxIn == 2          \* longest input slice handed to encode_i32 / encode_i16
MaxOut == 2         \* longest caller-supplied output buffer
MaxEmit == 2        \* most bytes the engine pushes during one engine call
MaxInits == 2       \* init() calls per adapter
MaxResets == 2      \* reset() calls per adapter

\* ------------------------------------------------------------ value sets
SampleRates == {48000}
BitDepths == {16, 24}
ChannelCounts == {1, 2}
FrameLengths == {0, 8}
CompressionLevels == {8}
\* i32 sample values: 40000 does not fit 16 bits, it fits 24
Samples == {0, 40000}
\* the fill of a caller's output buffer
FillByte == 0

SeqsUpTo(S, n) == UNION {[1..k -> S] : k \in 0..n}

\* struct FlacEncoder's configuration fields
Configs ==
    [sample_rate : SampleRates, channels : ChannelCounts,
     bits_per_sample : BitDepths, frame_length : FrameLengths,
     compression_level : CompressionLevels]

Inputs == SeqsUpTo(Samples, MaxIn)
Outputs == {[i \in 1..k |-> FillByte] : k \in 0..MaxOut}

VARIABLES
    cfg,        \* sample_rate, channels, bits_per_sample, frame_length, compression_level
    encoder,    \* self.encoder: the handle the adapter holds (index into heap)
    heap,       \* every encoder the engine ever allocated, by handle
    buffer,     \* the Vec<u8> inside self.buffer (the accumulator)
    rcStrong,   \* strong count of the Rc around the accumulator
    dropped,    \* the adapter has been dropped
    inits,      \* init() calls made
    resets,     \* reset() calls made
    lastOp,     \* the public operation that returned last
    result,     \* what it returned
    input,      \* the input slice of the last encode call
    output,     \* the caller's output buffer after the last encode call
    outBefore,  \* the same buffer before that call
    produced,   \* bytes the write callback appended during the last operation
    readCount,  \* sample values the engine was told to read in the last encode_i32
    firstSettings, \* <<settings>> of the constructed resource once init has opened its stream
    failure,    \* status of the latest failed init/reset since the last successful reset
    callbacks,  \* what each write_callback invocation of the last operation found
    origin      \* for each byte of the accumulator, the operation that appended it

vars == <<cfg, encoder, heap, buffer, rcStrong, dropped, inits, resets, lastOp,
          result, input, output, outBefore, produced, readCount,
          firstSettings, failure, callbacks, origin>>

\* ------------------------------------------------------------ the engine
\* FLAC__stream_encoder_new: a fresh encoder with the engine defaults
stream_encoder_new ==
    [alive |-> TRUE, state |-> "UNINITIALIZED",
     sample_rate |-> 44100, channels |-> 2, bits_per_sample |-> 16,
     blocksize |-> 0, compression_level |-> 5, verify |-> FALSE,
     client |-> "none", pending |-> FALSE, finished |-> 0, deleted |-> 0,
     misused |-> FALSE]

\* the settings of an encoder
Settings(r) ==
    [sample_rate |-> r.sample_rate, channels |-> r.channels,
     bits_per_sample |-> r.bits_per_sample, blocksize |-> r.blocksize,
     compression_level |-> r.compression_level, verify |-> r.verify]

\* FLAC__stream_encoder_set_*: ignored unless the encoder is UNINITIALIZED
stream_encoder_set(r, field, v) ==
    IF r.state = "UNINITIALIZED" THEN [r EXCEPT ![field] = v] ELSE r

\* status FLAC__stream_encoder_init_stream reports for an encoder
InitStatus(r) ==
    IF r.state # "UNINITIALIZED" THEN "ALREADY_INITIALIZED"
    ELSE IF r.channels = 0 \/ r.channels > 8 THEN "INVALID_NUMBER_OF_CHANNELS"
    ELSE IF r.bits_per_sample < 4 \/ r.bits_per_sample > 32 THEN "INVALID_BITS_PER_SAMPLE"
    ELSE IF r.sample_rate = 0 \/ r.sample_rate > 1048575 THEN "INVALID_SAMPLE_RATE"
    ELSE IF r.blocksize # 0 /\ (r.blocksize < 16 \/ r.blocksize > 65535) THEN "INVALID_BLOCK_SIZE"
    ELSE "OK"

\* the concatenation of a sequence of chunks
RECURSIVE Flatten(_)
Flatten(chunks) ==
    IF chunks = <<>> THEN <<>> ELSE Head(chunks) \o Flatten(Tail(chunks))

\* What the engine may push in one call: at most MaxEmit bytes, cut into
\* chunks in any way, one callback per chunk.  The bytes are opaque to the
\* adapter; the k-th byte of a call is written k, so that order, loss and
\* duplication of bytes show.
Stream(a, b) == [i \in 1..(b - a + 1) |-> a + i - 1]

\* the ways to cut bytes a..n into chunks
RECURSIVE Chunkings(_, _)
Chunkings(a, n) ==
    IF a > n THEN {<<>>}
    ELSE UNION {{<<Stream(a, b)>> \o rest : rest \in Chunkings(b + 1, n)} : b \in a..n}

Emissions == UNION {Chunkings(1, n) : n \in 0..MaxEmit}

\* write_callback: append the chunk to the accumulator behind client_data
write_callback(acc, chunk) == acc \o chunk

\* the accumulator after the engine pushed the chunks, one callback each
RECURSIVE WriteAll(_, _)
WriteAll(acc, chunks) ==
    IF chunks = <<>> THEN acc
    ELSE WriteAll(write_callback(acc, Head(chunks)), Tail(chunks))

\* the engine pushes the chunks to the accumulator its client_data points to
Deliver(client, acc, chunks) ==
    IF client = "buffer" THEN WriteAll(acc, chunks) ELSE acc

\* the chunks with every byte replaced by the name of the operation running
Tagged(chunks, op) == [i \in 1..Len(chunks) |-> [j \in 1..Len(chunks[i]) |-> op]]

\* what the write_callback invocations of one engine call find: the borrow
\* the adapter holds on the accumulator, the context they are handed, and
\* whether the accumulator behind it is still allocated
Invocations(chunks, borrow, client, rc) ==
    IF chunks = <<>> THEN {}
    ELSE {[borrow |-> borrow, client |-> client, allocated |-> rc >= 1]}

\* a sample value fits the signed range of the bit depth
InRange(s, bps) == s >= -(2 ^ (bps - 1)) /\ s <= 2 ^ (bps - 1) - 1

\* an engine call on a freed encoder is recorded on the handle
Touch(r) == IF r.alive THEN r ELSE [r EXCEPT !.misused = TRUE]

\* the stream header: the marker with STREAMINFO, then the comment block, one
\* callback each
HeaderChunks == <<<<1>>, <<2>>>>

\* FLAC__stream_encoder_init_stream(encoder, write_callback, .., client_data):
\* the outcomes [res, chunks, status]; an OK init writes the stream header
stream_encoder_init_stream(r0, client_data) ==
    LET r == Touch(r0) IN
    IF InitStatus(r) # "OK"
    THEN {[res |-> r, chunks |-> <<>>, status |-> InitStatus(r)]}
    ELSE {[res |-> [r EXCEPT !.state = "OK", !.client = client_data],
           chunks |-> HeaderChunks, status |-> "OK"]}

\* index of the first sample among the first n of in that the bit depth rejects, or 0
FirstBad(in, n, bps) ==
    LET bad == {i \in 1..n : i <= Len(in) /\ ~InRange(in[i], bps)}
    IN IF bad = {} THEN 0 ELSE CHOOSE i \in bad : \A j \in bad : i <= j

\* FLAC__stream_encoder_process_interleaved(encoder, input, frames):
\* the outcomes [res, chunks, ok].  The engine reads frames * channels values
\* in order.  A value read past the end of the slice is whatever memory holds:
\* it passes the range check or it does not.
stream_encoder_process_interleaved(r0, in, frames) ==
    LET r == Touch(r0)
        need == frames * r.channels
        k == FirstBad(in, need, r.bits_per_sample)
        o == IF need > Len(in) THEN Len(in) + 1 ELSE 0
        stops == (IF k # 0 THEN {k} ELSE {})
                 \cup (IF o # 0 /\ (k = 0 \/ o < k) THEN {o} ELSE {})
        emit(consumed) == IF consumed >= 1 THEN Emissions ELSE {<<>>}
        fails == UNION {{[res |-> [r EXCEPT !.state = "CLIENT_ERROR"],
                          chunks |-> e, ok |-> FALSE]
                         : e \in emit((s - 1) \div r.channels)} : s \in stops}
        passes == IF k # 0 THEN {}
                  ELSE {[res |-> [r EXCEPT !.pending = r.pending \/ frames >= 1],
                         chunks |-> e, ok |-> TRUE] : e \in emit(frames)}
    IN IF r.state # "OK"
       THEN {[res |-> r, chunks |-> <<>>, ok |-> FALSE]}
       ELSE fails \cup passes

\* FLAC__stream_encoder_finish(encoder): the outcomes [res, chunks]; an OK
\* stream with buffered samples is flushed through the callback, and the
\* encoder returns to UNINITIALIZED with the engine defaults
stream_encoder_finish(r0) ==
    LET r == Touch(r0)
        done == [stream_encoder_new EXCEPT !.alive = r.alive, !.misused = r.misused,
                                           !.finished = r.finished + 1,
                                           !.deleted = r.deleted]
    IN IF r.state = "OK" /\ r.pending
       THEN {[res |-> done, chunks |-> e] : e \in Emissions \ {<<>>}}
       ELSE {[res |-> done, chunks |-> <<>>]}

\* FLAC__stream_encoder_delete(encoder): free the encoder
stream_encoder_delete(r) ==
    [stream_encoder_new EXCEPT !.alive = FALSE, !.misused = r.misused,
                               !.finished = r.finished, !.deleted = r.deleted + 1]

\* what a public operation returns; an error's text carries a status or state
Nothing == [kind |-> "None", n |-> 0, status |-> ""]
Ok(n) == [kind |-> "Ok", n |-> n, status |-> ""]
Err(kind) == [kind |-> kind, n |-> 0, status |-> ""]
ErrWith(kind, status) == [kind |-> kind, n |-> 0, status |-> status]

\* ------------------------------------------------------------ the adapter
\* FlacEncoder::new: allocate the accumulator and the encoder, store the config
Init ==
    /\ cfg \in Configs
    /\ encoder = 1
    /\ heap = <<stream_encoder_new>>
    /\ buffer = <<>>
    /\ rcStrong = 1
    /\ dropped = FALSE
    /\ inits = 0
    /\ resets = 0
    /\ lastOp = "new"
    /\ result = Nothing
    /\ input = <<>>
    /\ output = <<>>
    /\ outBefore = <<>>
    /\ produced = <<>>
    /\ readCount = 0
    /\ firstSettings = <<>>
    /\ failure = ""
    /\ callbacks = {}
    /\ origin = <<>>

\* mutant of encode_i16: it clears the accumulator before failing
encode_i16_clearing ==
    /\ ~dropped
    /\ \E in \in SeqsUpTo({0}, MaxIn), out \in Outputs :
        /\ input' = in
        /\ outBefore' = out
        /\ output' = out
    /\ lastOp' = "encode_i16"
    /\ result' = Err("NotImplemented")
    /\ produced' = <<>>
    /\ readCount' = 0
    /\ buffer' = <<>>
    /\ origin' = <<>>
    /\ callbacks' = {}
    /\ UNCHANGED <<cfg, encoder, heap, rcStrong, dropped, inits, resets, firstSettings,
                   failure>>

\* FlacEncoder::encode_i16
encode_i16 ==
    /\ ~dropped
    /\ \E in \in SeqsUpTo({0}, MaxIn), out \in Outputs :
        /\ input' = in
        /\ outBefore' = out
        /\ output' = out
    /\ lastOp' = "encode_i16"
    /\ result' = Err("NotImplemented")
    /\ produced' = <<>>
    /\ readCount' = 0
    /\ callbacks' = {}
    /\ UNCHANGED <<cfg, encoder, heap, buffer, rcStrong, dropped, inits, resets,
                   firstSettings, failure, origin>>

\* mutant of ClearAcc: the first byte left by earlier operations survives
ClearAccKeepFirst(acc) == IF acc = <<>> THEN <<>> ELSE <<acc[1]>>

\* mutant of ClearAcc: the accumulator is not cleared
ClearAccSkipped(acc) == acc

\* self.buffer.borrow_mut().clear()
ClearAcc(acc) == <<>>

\* mutant of TooSmall: the capacity check is off by one
TooSmallOffByOne(out, acc) == Len(out) + 1 < Len(acc)

\* output.len() < encoded_len
TooSmall(out, acc) == Len(out) < Len(acc)

\* mutant of CopyOut: the copy starts one byte into the output
CopyOutShifted(out, acc) ==
    [i \in 1..Len(out) |-> IF i > 1 /\ i - 1 <= Len(acc) THEN acc[i - 1] ELSE out[i]]

\* output[..encoded_len].copy_from_slice(&encoded_data)
CopyOut(out, acc) ==
    [i \in 1..Len(out) |-> IF i <= Len(acc) THEN acc[i] ELSE out[i]]

\* mutant of ClientData: the context is a fresh accumulator, not the adapter's
ClientDataFresh == "other"

\* Rc::into_raw(self.buffer.clone()): a pointer to the adapter's accumulator
\* that owns one strong count
ClientData == "buffer"

\* FlacEncoder::init
init ==
    /\ ~dropped
    /\ inits < MaxInits
    /\ \E oc \in stream_encoder_init_stream(heap[encoder], ClientData) :
        /\ heap' = [heap EXCEPT ![encoder] = oc.res]
        /\ buffer' = Deliver(oc.res.client, buffer, oc.chunks)
        /\ origin' = Deliver(oc.res.client, origin, Tagged(oc.chunks, "init"))
        /\ produced' = Flatten(oc.chunks)
        /\ callbacks' = Invocations(oc.chunks, "none", oc.res.client, rcStrong + 1)
        /\ result' = IF oc.status # "OK" THEN ErrWith("InitFailed", oc.status) ELSE Ok(0)
        /\ failure' = IF oc.status # "OK" THEN oc.status ELSE failure
        /\ firstSettings' = IF oc.status = "OK" /\ encoder = 1
                            THEN <<Settings(oc.res)>> ELSE firstSettings
    /\ rcStrong' = rcStrong + 1
    /\ inits' = inits + 1
    /\ lastOp' = "init"
    /\ input' = <<>> /\ output' = <<>> /\ outBefore' = <<>> /\ readCount' = 0
    /\ UNCHANGED <<cfg, encoder, dropped, resets>>

\* mutant of BorrowWhileProcessing: the clearing borrow is kept in a local
\* and is still held while the samples are processed
BorrowKeptWhileProcessing == "mut"

\* the adapter's borrow of the accumulator while process_interleaved runs:
\* the RefMut of line 88 is a temporary, released at the end of the
\* statement, and the Ref of line 106 is taken after the call returned
BorrowWhileProcessing == "none"

\* mutant of ProcessFailed: the engine's result is not looked at
ProcessFailedIgnored(ok) == FALSE

\* success == 0
ProcessFailed(ok) == ~ok

\* mutant of FailedOutput: what fits of the accumulator is copied out before
\* the failure is reported
FailedOutputPartial(out, acc) ==
    [i \in 1..Len(out) |-> IF i <= Len(acc) THEN acc[i] ELSE out[i]]

\* the output buffer on the failure path: encode_i32 returns before any copy
FailedOutput(out, acc) == out

\* FlacEncoder::encode_i32
encode_i32 ==
    /\ ~dropped
    /\ \E in \in Inputs :
        LET frames == Len(in) \div cfg.channels
            cleared == ClearAcc(buffer)
        IN \E oc \in stream_encoder_process_interleaved(heap[encoder], in, frames),
              out \in Outputs :
            LET acc == Deliver(oc.res.client, cleared, oc.chunks) IN
            /\ heap' = [heap EXCEPT ![encoder] = oc.res]
            /\ buffer' = acc
            /\ origin' = Deliver(oc.res.client, ClearAcc(origin),
                                  Tagged(oc.chunks, "encode_i32"))
            /\ produced' = Flatten(oc.chunks)
            /\ callbacks' = Invocations(oc.chunks, BorrowWhileProcessing,
                                        oc.res.client, rcStrong)
            /\ readCount' = IF heap[encoder].state = "OK"
                            THEN frames * heap[encoder].channels ELSE 0
            /\ input' = in
            /\ outBefore' = out
            /\ IF ProcessFailed(oc.ok)
               THEN /\ result' = ErrWith("EncodingFailed", oc.res.state)
                    /\ output' = FailedOutput(out, acc)
               ELSE IF TooSmall(out, acc)
               THEN result' = Err("BufferTooSmall") /\ output' = out
               ELSE result' = Ok(Len(acc)) /\ output' = CopyOut(out, acc)
    /\ lastOp' = "encode_i32"
    /\ UNCHANGED <<cfg, encoder, rcStrong, dropped, inits, resets, firstSettings,
                   failure>>

\* mutant of ResetRelease: the old encoder is finished but not deleted
ResetReleaseNoDelete(h, e) ==
    {[heap |-> [h EXCEPT ![e] = fin.res], chunks |-> fin.chunks,
      client |-> h[e].client] : fin \in stream_encoder_finish(h[e])}

\* reset, lines 124-125: finish and delete the current encoder
\* (the outcomes [heap, chunks, client]: the chunks flushed and the context
\* they are pushed to)
ResetRelease(h, e) ==
    {[heap |-> [h EXCEPT ![e] = stream_encoder_delete(fin.res)],
      chunks |-> fin.chunks, client |-> h[e].client]
     : fin \in stream_encoder_finish(h[e])}

\* reset, lines 127-133: a new encoder with the stored config applied
ResetConfigure(c) ==
    LET r0 == stream_encoder_new
        r1 == stream_encoder_set(r0, "blocksize", c.frame_length)
        r2 == stream_encoder_set(r1, "verify", TRUE)
        r3 == stream_encoder_set(r2, "compression_level", c.compression_level)
        r4 == stream_encoder_set(r3, "channels", c.channels)
        r5 == stream_encoder_set(r4, "bits_per_sample", c.bits_per_sample)
    IN stream_encoder_set(r5, "sample_rate", c.sample_rate)

\* mutant of ResetOpen: the stream is initialized before the settings are applied
ResetOpenInitFirst(c, client_data) ==
    {[oc EXCEPT !.res =
        LET r1 == stream_encoder_set(oc.res, "blocksize", c.frame_length)
            r2 == stream_encoder_set(r1, "verify", TRUE)
            r3 == stream_encoder_set(r2, "compression_level", c.compression_level)
            r4 == stream_encoder_set(r3, "channels", c.channels)
            r5 == stream_encoder_set(r4, "bits_per_sample", c.bits_per_sample)
        IN stream_encoder_set(r5, "sample_rate", c.sample_rate)]
     : oc \in stream_encoder_init_stream(stream_encoder_new, client_data)}

\* reset, lines 127-142: the new encoder is configured, then its stream is
\* initialized with the write callback and the context
ResetOpen(c, client_data) ==
    stream_encoder_init_stream(ResetConfigure(c), client_data)

\* FlacEncoder::reset
reset ==
    /\ ~dropped
    /\ resets < MaxResets
    /\ \E rel \in ResetRelease(heap, encoder), oc \in ResetOpen(cfg, ClientData) :
        LET flushed == Deliver(rel.client, buffer, rel.chunks)
            flushedBy == Deliver(rel.client, origin, Tagged(rel.chunks, "reset"))
        IN  /\ encoder' = Len(rel.heap) + 1
            /\ heap' = Append(rel.heap, oc.res)
            /\ buffer' = Deliver(oc.res.client, flushed, oc.chunks)
            /\ origin' = Deliver(oc.res.client, flushedBy, Tagged(oc.chunks, "reset"))
            /\ produced' = Flatten(rel.chunks) \o Flatten(oc.chunks)
            /\ callbacks' = Invocations(rel.chunks, "none", rel.client, rcStrong)
                   \cup Invocations(oc.chunks, "none", oc.res.client, rcStrong + 1)
            /\ result' = IF oc.status # "OK"
                         THEN ErrWith("ResetFailed", oc.res.state) ELSE Ok(0)
            /\ failure' = IF oc.status # "OK" THEN oc.status ELSE ""
    /\ rcStrong' = rcStrong + 1
    /\ resets' = resets + 1
    /\ lastOp' = "reset"
    /\ input' = <<>> /\ output' = <<>> /\ outBefore' = <<>> /\ readCount' = 0
    /\ UNCHANGED <<cfg, dropped, inits, firstSettings>>

\* mutant of DropRelease: the encoder is deleted twice
DropReleaseTwice(h, e) ==
    {[heap |-> [h EXCEPT ![e] = stream_encoder_delete(stream_encoder_delete(fin.res))],
      chunks |-> fin.chunks, client |-> h[e].client]
     : fin \in stream_encoder_finish(h[e])}

\* Drop for FlacEncoder, lines 160-161: finish and delete the encoder
\* (the outcomes [heap, chunks, client])
DropRelease(h, e) ==
    {[heap |-> [h EXCEPT ![e] = stream_encoder_delete(fin.res)],
      chunks |-> fin.chunks, client |-> h[e].client]
     : fin \in stream_encoder_finish(h[e])}

\* Drop for FlacEncoder, then the fields are dropped: the adapter's Rc goes
drop ==
    /\ ~dropped
    /\ \E rel \in DropRelease(heap, encoder) :
        /\ heap' = rel.heap
        /\ buffer' = Deliver(rel.client, buffer, rel.chunks)
        /\ origin' = Deliver(rel.client, origin, Tagged(rel.chunks, "drop"))
        /\ produced' = Flatten(rel.chunks)
        /\ callbacks' = Invocations(rel.chunks, "none", rel.client, rcStrong)
    /\ rcStrong' = rcStrong - 1
    /\ dropped' = TRUE
    /\ lastOp' = "drop"
    /\ result' = Nothing
    /\ input' = <<>> /\ output' = <<>> /\ outBefore' = <<>> /\ readCount' = 0
    /\ UNCHANGED <<cfg, encoder, inits, resets, firstSettings, failure>>

\* ------------------------------------------------------------ the claims
\* the resource the adapter holds
Live == heap[encoder]

\* the handles that are allocated and not freed
LiveHandles == {h \in DOMAIN heap : heap[h].alive}

\* what construct is said to apply to the resource
ConfigSettings ==
    [sample_rate |-> cfg.sample_rate, channels |-> cfg.channels,
     bits_per_sample |-> cfg.bits_per_sample, blocksize |-> cfg.frame_length,
     compression_level |-> cfg.compression_level, verify |-> TRUE]

\* the settings a resource encodes with, block size aside
EncodeSettings(s) ==
    [sample_rate |-> s.sample_rate, channels |-> s.channels,
     bits_per_sample |-> s.bits_per_sample,
     compression_level |-> s.compression_level, verify |-> s.verify]

\* C1: after construct returns and before any other operation, the live
\* resource carries every config field (sample rate, channels, bits per
\* sample, block size, compression level) and verify is enabled.
C1_ConfigAppliedAtConstruct ==
    lastOp = "new" => Settings(Live) = ConfigSettings

\* C2: a successful encode_i32 returns n with n <= output.len(), n the
\* accumulator's length, output[0..n] the accumulator's bytes in order from
\* offset 0, and the bytes at index >= n as they were.
C2_CopyOnSuccess ==
    (lastOp = "encode_i32" /\ result.kind = "Ok") =>
        /\ result.n <= Len(output)
        /\ result.n = Len(buffer)
        /\ SubSeq(output, 1, result.n) = buffer
        /\ Len(output) = Len(outBefore)
        /\ \A i \in (result.n + 1)..Len(output) : output[i] = outBefore[i]

C2_Witness ==
    /\ lastOp = "encode_i32" /\ result.kind = "Ok"
    /\ result.n >= 1 /\ result.n < Len(output)

\* C3 as stated: whenever the bytes produced during an encode_i32 call exceed
\* output.len(), the call returns BufferTooSmall and the output buffer is
\* unchanged.  (Taken over the calls whose reads stay inside the input
\* slice, so that no undefined read decides it.)
C3_AlwaysBufferTooSmall ==
    (lastOp = "encode_i32" /\ readCount <= Len(input)
     /\ Len(produced) > Len(outBefore)) =>
        (result.kind = "BufferTooSmall" /\ output = outBefore)

\* C3 amended: whenever the bytes produced during an encode_i32 call exceed
\* output.len(), the call returns an error and the output buffer is
\* unchanged; the error is BufferTooSmall when the resource reported success
\* and EncodingFailed when it reported failure.
C3_ErrorAndOutputUntouched ==
    (lastOp = "encode_i32" /\ Len(produced) > Len(outBefore)) =>
        /\ result.kind = (IF Live.state = "OK" THEN "BufferTooSmall" ELSE "EncodingFailed")
        /\ output = outBefore

C3_Witness ==
    /\ lastOp = "encode_i32" /\ result.kind = "BufferTooSmall"
    /\ Len(outBefore) >= 1 /\ output = outBefore

\* C4: encode_i16 returns NotImplemented whatever the input, the output
\* buffer and the adapter's state, and changes nothing: accumulator, output
\* buffer, handle and resources are as before the call.
C4_EncodeI16Inert ==
    [][lastOp' = "encode_i16" =>
        /\ result'.kind = "NotImplemented"
        /\ output' = outBefore'
        /\ UNCHANGED <<cfg, encoder, heap, buffer, rcStrong, dropped>>]_vars

C4_Witness ==
    /\ lastOp = "encode_i16" /\ result.kind = "NotImplemented"
    /\ Live.state = "OK" /\ buffer # <<>> /\ Len(output) >= 1 /\ Len(input) >= 1

\* C5: after construct and a successful init (no reset), an encode_i32 call
\* on the initialized resource with a whole number of frames of samples that
\* fit the configured bit depth and a large enough output buffer returns Ok.
\* (Taken over the calls whose reads stay inside the input slice.)
C5_ReadyAfterInit ==
    [][(/\ lastOp' = "encode_i32"
        /\ encoder = 1 /\ firstSettings # <<>> /\ Live.state = "OK"
        /\ Len(input') % cfg.channels = 0
        /\ readCount' <= Len(input')
        /\ \A i \in 1..Len(input') : InRange(input'[i], cfg.bits_per_sample)
        /\ Len(outBefore') >= Len(produced'))
       => result'.kind = "Ok"]_vars

\* C6: the settings the live resource encodes with (channels, sample rate,
\* bits per sample, compression level, verify) are the same for an
\* encode_i32 after construct+init as for one after a successful reset.
C6_SettingsSameAcrossReset ==
    (/\ lastOp = "encode_i32" /\ encoder > 1 /\ Live.state = "OK"
     /\ firstSettings # <<>>)
    => EncodeSettings(Settings(Live)) = EncodeSettings(firstSettings[1])

\* C7: reset calls leak nothing: after a successful reset one encoder handle is live and
\* the accumulator has at most two owners, the adapter and the context the
\* live resource holds, however many init and reset calls were made.
C7_NoLeakAcrossResets ==
    (lastOp = "reset" /\ result.kind = "Ok") =>
        (Cardinality(LiveHandles) = 1 /\ rcStrong <= 2)

\* C8: every handle ever allocated is finished and deleted at most once while
\* the adapter lives and exactly once by teardown; no freed handle is used;
\* none is live after teardown, also when init never ran or reset failed.
C8_HandlesReleasedOnce ==
    /\ \A h \in DOMAIN heap :
        /\ heap[h].deleted <= 1 /\ heap[h].finished <= 1
        /\ ~heap[h].misused
        /\ heap[h].alive <=> heap[h].deleted = 0
        /\ ~heap[h].alive => heap[h].finished = 1
    /\ dropped => \A h \in DOMAIN heap :
                     ~heap[h].alive /\ heap[h].deleted = 1 /\ heap[h].finished = 1

C8_Witness ==
    dropped /\ Len(heap) >= 2 /\ cfg.frame_length = 8 /\ inits = 0

\* C9: between public operations, from construct to teardown, the adapter
\* owns exactly one live handle, the one it holds.
C9_OneLiveHandle ==
    ~dropped => (LiveHandles = {encoder})

C9_Witness ==
    lastOp = "reset" /\ result.kind = "ResetFailed" /\ Len(heap) = 3

\* C10: when encode_i32 returns, by any path, the accumulator holds exactly
\* the bytes the write callback appended during that call, in callback order.
C10_AccumulatorIsThisCall ==
    lastOp = "encode_i32" => buffer = produced

C10_Witness ==
    /\ lastOp = "encode_i32" /\ result.kind = "EncodingFailed"
    /\ Len(produced) >= 2 /\ inits >= 1

\* C11: encode_i32 with a sample count that is not a multiple of
\* channel_count fails with InvalidInput and submits no samples to the
\* resource.  (Taken on an initialized resource, where nothing else fails
\* the call.)
C11_RaggedInputRejected ==
    (lastOp = "encode_i32" /\ Len(input) % cfg.channels # 0 /\ Live.state = "OK") =>
        (result.kind = "InvalidInput" /\ readCount = 0)

\* C12: reset finalizes and destroys the current resource, allocates a new
\* one, applies the stored config to it, and only then initializes its stream
\* with the write callback bound to this adapter's accumulator: when reset
\* returns, every earlier handle is finished and freed, the new resource
\* carries the config given at construction (no setting was applied to an
\* initialized stream, where it would be ignored), and when initialization
\* reported OK the resource accepts samples and is bound to the accumulator.
C12_ResetOrder ==
    lastOp = "reset" =>
        /\ encoder = Len(heap) /\ encoder >= 2
        /\ \A h \in 1..(encoder - 1) :
              ~heap[h].alive /\ heap[h].finished = 1 /\ heap[h].deleted = 1
        /\ Live.alive /\ Live.finished = 0
        /\ Settings(Live) = ConfigSettings
        /\ result.kind = "Ok" => (Live.state = "OK" /\ Live.client = "buffer")
        /\ result.kind # "Ok" =>
              (result.kind = "ResetFailed" /\ Live.state = "UNINITIALIZED")

C12_Witness ==
    /\ lastOp = "reset" /\ result.kind = "Ok" /\ resets = 2
    /\ cfg.channels = 1 /\ cfg.bits_per_sample = 24 /\ Live.state = "OK"

\* C13 as stated: after init or reset returned an error, every later
\* encode_i32 returns an error until a reset succeeds, and teardown still
\* finishes and frees every handle.  (Taken on calls that submit samples
\* and whose reads stay inside the input.)
C13_EncodeFailsAfterAnyFailure ==
    /\ (lastOp = "encode_i32" /\ failure # ""
            /\ Len(input) >= 1 /\ readCount <= Len(input)) => result.kind # "Ok"
    /\ (dropped /\ failure # "") =>
          \A h \in DOMAIN heap :
              ~heap[h].alive /\ heap[h].finished = 1 /\ heap[h].deleted = 1
              /\ ~heap[h].misused

\* C13 amended: after reset returned an error, or init returned an error other
\* than the one for an already initialized resource, every later encode_i32
\* returns EncodingFailed until a reset succeeds (a rejected repeated init
\* leaves the open stream usable); after any such error teardown still
\* finishes and frees every handle exactly once.
C13_EncodeFailsAfterFailedOpen ==
    /\ (lastOp = "encode_i32" /\ failure \notin {"", "ALREADY_INITIALIZED"}) =>
          (result.kind = "EncodingFailed" /\ result.status = "UNINITIALIZED")
    /\ (dropped /\ failure # "") =>
          \A h \in DOMAIN heap :
              ~heap[h].alive /\ heap[h].finished = 1 /\ heap[h].deleted = 1
              /\ ~heap[h].misused

C13_Witness ==
    /\ lastOp = "encode_i32" /\ failure = "INVALID_BLOCK_SIZE"
    /\ result.kind = "EncodingFailed" /\ Len(input) >= 1 /\ resets >= 1

\* C14: an init call on a resource whose stream is already initialized returns
\* an error carrying the reported status and leaves the resource, its callback
\* binding and the number of references to the accumulator as they were.
C14_SecondInitChangesNothing ==
    [][(lastOp' = "init" /\ Live.state = "OK") =>
        /\ result'.kind = "InitFailed"
        /\ result'.status = "ALREADY_INITIALIZED"
        /\ heap' = heap /\ encoder' = encoder
        /\ rcStrong' = rcStrong]_vars

\* C15: when the resource reports a processing failure in encode_i32 (it is
\* left in a state other than OK), the call returns EncodingFailed carrying
\* the resource's state and the output buffer is as the caller passed it,
\* whatever the callback appended to the accumulator before the failure.
C15_FailureLeavesOutput ==
    (lastOp = "encode_i32" /\ Live.state # "OK") =>
        /\ result.kind = "EncodingFailed"
        /\ result.status = Live.state
        /\ output = outBefore

C15_Witness ==
    /\ lastOp = "encode_i32" /\ result.status = "CLIENT_ERROR"
    /\ Len(produced) >= 1 /\ Len(outBefore) >= 1 /\ buffer # <<>>

C17_OnlyEncodeBytesReturned ==
    /\ Len(origin) = Len(buffer)
    /\ (lastOp = "encode_i32" /\ result.kind = "Ok") =>
          /\ result.n = Len(origin)
          /\ \A i \in 1..result.n :
                origin[i] = "encode_i32" /\ output[i] = buffer[i]

C17_Witness ==
    /\ lastOp = "encode_i32" /\ result.kind = "Ok" /\ result.n >= 1
    /\ inits >= 1 /\ resets >= 1 /\ origin # <<>>

\* C18: every invocation of the write callback, in init, encode_i32, the
\* finalize step of reset and the finalize step of teardown, is handed a
\* context that refers to the adapter's own accumulator, which is still
\* allocated at that moment.
C18_CallbackContextValid ==
    \A cb \in callbacks : cb.client = "buffer" /\ cb.allocated

C18_Witness ==
    lastOp = "drop" /\ callbacks # {} /\ produced # <<>> /\ resets >= 1

\* C19: in every encode_i32 call the number of sample values the resource
\* reads, the submitted frame count times the channel count the live resource
\* is configured with, is at most input.len().
C19_ReadsInsideInput ==
    lastOp = "encode_i32" => readCount <= Len(input)

Next ==
    \/ init
    \/ encode_i16
    \/ encode_i32
    \/ reset
    \/ drop

Spec == Init /\ [][Next]_vars
====
